---- MODULE Spec2Model ----
(***************************************************************************)
(* Model of bokehfun.py: prepare_lightcurve_datasource,                    *)
(* prepare_tpf_datasource, make_tpf_figure_elements and the stretch        *)
(* slider's change callback.                                               *)
(*                                                                         *)
(* Numbers.  A float is a record [k, v].  k = "num": the real v / Milli    *)
(* (exact fixed point, so 0.5 and the quantiles 0.2% .. 99.8% are exact);  *)
(* k = "nan": NaN; k = "ninf": -inf; k = "log10": the irrational real      *)
(* log10(v / Milli), kept unevaluated.  Arithmetic is exact: IEEE rounding *)
(* is outside the model.  Flux values are finite or NaN.                   *)
(*                                                                         *)
(* Arrays.  A numpy array is [shape, data] with data the elements in       *)
(* row-major (C) order, which is the order numpy's reshape(-1), boolean    *)
(* indexing and tolist() use.                                              *)
(***************************************************************************)
EXTENDS Integers, Sequences, FiniteSets, TLC

VARIABLES
    lc,              \* the LightCurve passed to prepare_lightcurve_datasource
    tpf,             \* the TargetPixelFile
    aperture_mask,   \* the boolean mask passed to prepare_tpf_datasource
    pedestal,        \* make_tpf_figure_elements' pedestal argument (None or a float)
    fiducial_frame,  \* make_tpf_figure_elements' fiducial_frame argument (None or an index)
    lc_source,       \* outcome of prepare_lightcurve_datasource
    tpf_source,      \* outcome of prepare_tpf_datasource
    fig,             \* the figure built by make_tpf_figure_elements
    color_mapper,    \* the LogColorMapper shared by the image glyph and the color bar
    stretch_slider,  \* the RangeSlider
    cb,              \* (attr, old, new) of the running stretch_change_callback call
    pc,              \* position inside stretch_change_callback
    dispatched       \* history: the slider has dispatched at least one change event

vars == <<lc, tpf, aperture_mask, pedestal, fiducial_frame, lc_source, tpf_source,
          fig, color_mapper, stretch_slider, cb, pc, dispatched>>

inputs == <<lc, tpf, aperture_mask, pedestal, fiducial_frame>>

-----------------------------------------------------------------------------
(* Bounds of the model *)

MaxSamples == 2      \* light curves have 0..MaxSamples samples
MaxQuality == 3      \* quality bitmasks are 0..MaxQuality
MaxRows == 2         \* prepare_tpf_datasource: frames have 1..MaxRows rows
MaxCols == 3         \* prepare_tpf_datasource: frames have 1..MaxCols columns
MaxFrames == 2       \* make_tpf_figure_elements: cubes have 1..MaxFrames frames
MaxExp == 3          \* slider events carry exponents 0..MaxExp

-----------------------------------------------------------------------------
(* Floats *)

Milli == 1000

None == <<>>
Some(x) == <<x>>

Num(n) == [k |-> "num", v |-> n]
NaN == [k |-> "nan", v |-> 0]
NegInf == [k |-> "ninf", v |-> 0]
Int2F(i) == Num(i * Milli)

IsNaN(f) == f.k = "nan"

\* a + b on finite-or-NaN floats
FAdd(a, b) == IF IsNaN(a) \/ IsNaN(b) THEN NaN ELSE Num(a.v + b.v)

\* -a
FNeg(a) == IF IsNaN(a) THEN NaN ELSE Num(-a.v)

\* a <= b on linear-space floats; any comparison with NaN is False
FLe(a, b) == a.k = "num" /\ b.k = "num" /\ a.v <= b.v

RECURSIVE IntPow10(_)
IntPow10(e) == IF e = 0 THEN 1 ELSE 10 * IntPow10(e - 1)

\* the integer exponents whose power of ten is exact in thousandths and fits the
\* model checker's integers
ExactExps == (-3) .. 6

\* 10 ** e for an integer e, in thousandths
Pow10Milli(e) == IF e >= 0 THEN Milli * IntPow10(e) ELSE Milli \div IntPow10(-e)

\* np.log10(x): NaN for NaN and for x < 0, -inf for 0
Log10(x) ==
    IF IsNaN(x) \/ x.v < 0 THEN NaN
    ELSE IF x.v = 0 THEN NegInf
    ELSE IF \E e \in ExactExps : Pow10Milli(e) = x.v
         THEN Int2F(CHOOSE e \in ExactExps : Pow10Milli(e) = x.v)
         ELSE [k |-> "log10", v |-> x.v]

\* 10 ** x: NaN for NaN, 0 for -inf
Pow10(x) ==
    CASE x.k = "nan" -> NaN
      [] x.k = "ninf" -> Num(0)
      [] x.k = "log10" -> Num(x.v)
      [] x.k = "num" -> Num(Pow10Milli(x.v \div Milli))

\* a <= b on log-space floats: 10 ** x is strictly increasing
LogLe(a, b) == ~IsNaN(a) /\ ~IsNaN(b) /\ Pow10(a).v <= Pow10(b).v

-----------------------------------------------------------------------------
(* numpy arrays *)

Array(shape, data) == [shape |-> shape, data |-> data]

RECURSIVE Prod(_)
Prod(s) == IF s = <<>> THEN 1 ELSE Head(s) * Prod(Tail(s))

\* a + scalar, elementwise
ArrAdd(a, x) == Array(a.shape, [p \in 1..Len(a.data) |-> FAdd(a.data[p], x)])

\* flux[k, :, :] of a 3-D array, k a valid 0-based index
Frame(a, k) ==
    LET n == a.shape[2] * a.shape[3]
    IN  Array(<<a.shape[2], a.shape[3]>>, SubSeq(a.data, k * n + 1, (k + 1) * n))

\* flux[None, :, :]: None is np.newaxis, the slices take axes 0 and 1
NewAxis(a) == Array(<<1>> \o a.shape, a.data)

\* the data without its NaNs
DropNaN(s) == SelectSeq(s, LAMBDA x : ~IsNaN(x))

RECURSIVE Insert(_, _)
Insert(x, s) ==
    IF s = <<>> THEN <<x>>
    ELSE IF x.v <= Head(s).v THEN <<x>> \o s
    ELSE <<Head(s)>> \o Insert(x, Tail(s))

RECURSIVE Sort(_)
Sort(s) == IF s = <<>> THEN <<>> ELSE Insert(Head(s), Sort(Tail(s)))

\* np.nanmin(a): NaN when every element is NaN
NanMin(a) ==
    LET s == Sort(DropNaN(a.data))
    IN  IF s = <<>> THEN NaN ELSE s[1]

\* np.nanpercentile(a, q) with linear interpolation, q in thousandths of 1
NanPercentile(a, q) ==
    LET s == Sort(DropNaN(a.data))
        pos == q * (Len(s) - 1)
        i == pos \div Milli
        t == pos % Milli
    IN  IF s = <<>> THEN NaN
        ELSE IF t = 0 THEN s[i + 1]
        ELSE Num(s[i + 1].v + ((s[i + 2].v - s[i + 1].v) * t) \div Milli)


-----------------------------------------------------------------------------
(* prepare_lightcurve_datasource *)

\* the names bound in the module's namespace: its imports and its three functions
ModuleGlobals ==
    {"bokeh", "show", "output_notebook", "push_notebook", "figure", "ColumnDataSource",
     "LogColorMapper", "Selection", "Slider", "RangeSlider", "Span", "ColorBar",
     "LogTicker", "Range1d", "layout", "Spacer", "HoverTool", "Button", "Div",
     "PrintfTickFormatter", "np",
     "prepare_lightcurve_datasource", "prepare_tpf_datasource", "make_tpf_figure_elements"}

\* (lc.time == lc.time).all(): an element equals itself unless it is NaN
AllTimesValid(time) == \A i \in 1..Len(time) : ~IsNaN(time[i])

Digit(d) == CASE d = 0 -> "0" [] d = 1 -> "1" [] d = 2 -> "2" [] d = 3 -> "3" [] d = 4 -> "4"
              [] d = 5 -> "5" [] d = 6 -> "6" [] d = 7 -> "7" [] d = 8 -> "8" [] d = 9 -> "9"

\* lc.astropy_time.isot of one sample: the time is a whole number of days after
\* 2009-01-01T12:00 (the zero point of Kepler's BKJD), within January
Isot(t) ==
    LET day == t.v \div Milli + 1
    IN  "2009-01-" \o Digit(day \div 10) \o Digit(day % 10) \o "T12:00:00.000"

\* lines 27-30
HumanTime(l) ==
    IF AllTimesValid(l.time)
    THEN [i \in 1..Len(l.time) |-> Isot(l.time[i])]
    ELSE [i \in 1..Len(l.flux) |-> " "]

\* the decoder's table of flag names, by bit value 1, 2, 4, 8
FlagStrings == <<"Attitude tweak", "Safe mode", "Coarse point", "Earth point">>

BitSet(bitmask, i) == (bitmask \div (2 ^ (i - 1))) % 2 = 1

RECURSIVE DecodeFrom(_, _)
DecodeFrom(bitmask, i) ==
    IF i > Len(FlagStrings) THEN <<>>
    ELSE (IF BitSet(bitmask, i) THEN <<FlagStrings[i]>> ELSE <<>>) \o DecodeFrom(bitmask, i + 1)

\* KeplerQualityFlags.decode(bitmask): the names of the set bits, lowest bit first
Decode(bitmask) == DecodeFrom(bitmask, 1)

RECURSIVE Join(_, _)
Join(sep, strs) ==
    IF Len(strs) = 1 THEN strs[1] ELSE strs[1] \o sep \o Join(sep, Tail(strs))

\* lines 36-41: what one bitmask appends to qual_strings
QualAppend(flag_str_list) ==
    (IF Len(flag_str_list) = 0 THEN <<" ">> ELSE <<>>)
    \o (IF Len(flag_str_list) = 1 THEN <<flag_str_list[1]>> ELSE <<>>)
    \o (IF Len(flag_str_list) > 1 THEN <<Join("; ", flag_str_list)>> ELSE <<>>)

RECURSIVE QualStrings(_)
QualStrings(quality) ==
    IF quality = <<>> THEN <<>>
    ELSE QualAppend(Decode(Head(quality))) \o QualStrings(Tail(quality))

\* line 35 evaluates the global name KeplerQualityFlags once per bitmask
DecoderLookupFails(l) == Len(l.quality) > 0 /\ "KeplerQualityFlags" \notin ModuleGlobals

EmptyTable ==
    [time |-> <<>>, time_iso |-> <<>>, flux |-> <<>>, cadence |-> <<>>,
     quality_code |-> <<>>, quality |-> <<>>]

LcNotCalled == [status |-> "not_called", exc |-> "", data |-> EmptyTable]

\* lines 43-50
LcTable(l) ==
    [time |-> l.time, time_iso |-> HumanTime(l), flux |-> l.flux, cadence |-> l.cadenceno,
     quality_code |-> l.quality, quality |-> QualStrings(l.quality)]

PrepareLightcurveDatasource(l) ==
    IF DecoderLookupFails(l)
    THEN [status |-> "raised", exc |-> "NameError", data |-> EmptyTable]
    ELSE [status |-> "returned", exc |-> "", data |-> LcTable(l)]

-----------------------------------------------------------------------------
(* prepare_tpf_datasource *)

\* mutant: indices counted from 1
PixelIndexArrayFromOne(t) ==
    LET npix == Prod(Frame(t.flux, 0).shape)
    IN  Array(Frame(t.flux, 0).shape, [p \in 1..npix |-> p])

\* np.arange(0, npix, 1).reshape(tpf.flux[0].shape)
PixelIndexArray(t) ==
    LET npix == Prod(Frame(t.flux, 0).shape)
    IN  Array(Frame(t.flux, 0).shape, [p \in 1..npix |-> p - 1])

\* a[mask].reshape(-1).tolist(): the elements under True cells, in row-major order
RECURSIVE MaskSelect(_, _)
MaskSelect(data, mask) ==
    IF data = <<>> THEN <<>>
    ELSE (IF Head(mask) THEN <<Head(data)>> ELSE <<>>) \o MaskSelect(Tail(data), Tail(mask))

\* mutant: the column offset advances with the row index
MeshXByRow(t) ==
    LET R == t.flux.shape[2]
        C == t.flux.shape[3]
    IN  Array(<<R, C>>, [p \in 1..(R * C) |-> Num((t.column + ((p - 1) \div C)) * Milli + Milli \div 2)])

\* np.meshgrid(xx, yy)[0] + 0.5 with xx = tpf.column + arange(shape[2]), on shape[1] rows
MeshX(t) ==
    LET R == t.flux.shape[2]
        C == t.flux.shape[3]
    IN  Array(<<R, C>>, [p \in 1..(R * C) |-> Num((t.column + ((p - 1) % C)) * Milli + Milli \div 2)])

\* np.meshgrid(xx, yy)[1] + 0.5 with yy = tpf.row + arange(shape[1])
MeshY(t) ==
    LET R == t.flux.shape[2]
        C == t.flux.shape[3]
    IN  Array(<<R, C>>, [p \in 1..(R * C) |-> Num((t.row + ((p - 1) \div C)) * Milli + Milli \div 2)])

TpfNotCalled ==
    [status |-> "not_called", xx |-> Array(<<>>, <<>>), yy |-> Array(<<>>, <<>>), selected |-> <<>>]

PrepareTpfDatasource(t, mask) ==
    [status |-> "returned", xx |-> MeshX(t), yy |-> MeshY(t),
     selected |-> MaskSelect(PixelIndexArray(t).data, mask.data)]

-----------------------------------------------------------------------------
(* make_tpf_figure_elements *)

\* mutant: the default pedestal without its + 1
PedestalNoOffset(t, ped) ==
    IF ped = None THEN FNeg(NanMin(t.flux)) ELSE ped[1]

\* lines 99-100
PedestalUsed(t, ped) ==
    IF ped = None THEN FAdd(FNeg(NanMin(t.flux)), Int2F(1)) ELSE ped[1]

\* mutant: the TESS branch formats module and output
TitleTessAsCcd(t) ==
    IF t.mission \in {"Kepler", "K2", "TESS"}
    THEN "Pixel data (CCD " \o ToString(t.module) \o "." \o ToString(t.output) \o ")"
    ELSE "Pixel data"

\* lines 102-107
Title(t) ==
    IF t.mission \in {"Kepler", "K2"}
    THEN "Pixel data (CCD " \o ToString(t.module) \o "." \o ToString(t.output) \o ")"
    ELSE IF t.mission = "TESS"
    THEN "Pixel data (Camera " \o ToString(t.camera) \o "." \o ToString(t.ccd) \o ")"
    ELSE "Pixel data"

\* the attributes of tpf that lines 102-107 evaluate
TitleReads(t) ==
    {"mission"}
    \cup (IF t.mission \in {"Kepler", "K2"} THEN {"module", "output"}
          ELSE IF t.mission = "TESS" THEN {"camera", "ccd"}
          ELSE {})

\* the attributes of tpf that the rest of the function evaluates (lines 100, 110-111, 119-124)
BodyReads == {"flux", "column", "row", "shape"}

\* the percentiles of line 119, in thousandths: 0.2 %, 1 %, 95 %, 99.8 %
Quantiles == <<2, 10, 950, 998>>

\* line 119: <<vlo, lo, hi, vhi>>
Percentiles(t, p) == [q \in 1..4 |-> NanPercentile(ArrAdd(t.flux, p), Quantiles[q])]

StepDivisor == 300

\* line 120, kept as the unevaluated quotient (log10(vhi) - log10(vlo)) / 300
VStep(pct) == [minuend |-> Log10(pct[4]), subtrahend |-> Log10(pct[1]), divisor |-> StepDivisor]

\* mutant: the color scale starts at the slider's full extent
ColorMapperFullExtent(pct) == [low |-> pct[1], high |-> pct[4]]

\* line 121
ColorMapper(pct) == [low |-> pct[2], high |-> pct[3]]

\* line 123: tpf.flux[fiducial_frame, :, :] + pedestal
Image(t, p, fid) ==
    ArrAdd(IF fid = None THEN NewAxis(t.flux) ELSE Frame(t.flux, fid[1]), p)

\* mutant: start and end exchanged
StretchSliderReversed(pct) ==
    [start |-> Log10(pct[4]), end |-> Log10(pct[1]), step |-> VStep(pct),
     value |-> <<Log10(pct[2]), Log10(pct[3])>>]

\* lines 148-159
StretchSlider(pct) ==
    [start |-> Log10(pct[1]), end |-> Log10(pct[4]), step |-> VStep(pct),
     value |-> <<Log10(pct[2]), Log10(pct[3])>>]

FigNotBuilt ==
    [status |-> "not_built", title |-> "", reads |-> {}, pedestal |-> NaN,
     x_range |-> <<0, 0>>, y_range |-> <<0, 0>>,
     image |-> Array(<<>>, <<>>), x |-> 0, y |-> 0, dw |-> 0, dh |-> 0, rect |-> FALSE]

\* lines 109-125, 143-145
Figure(t, src, ped, fid) ==
    [status |-> "built", title |-> Title(t), reads |-> TitleReads(t) \cup BodyReads,
     pedestal |-> PedestalUsed(t, ped),
     x_range |-> <<t.column, t.column + t.flux.shape[3]>>,
     y_range |-> <<t.row, t.row + t.flux.shape[2]>>,
     image |-> Image(t, PedestalUsed(t, ped), fid),
     x |-> t.column, y |-> t.row, dw |-> t.flux.shape[3], dh |-> t.flux.shape[2],
     rect |-> src # None]

NoMapper == [low |-> NaN, high |-> NaN]
NoSlider == StretchSlider(<<NaN, NaN, NaN, NaN>>)
\* no call of the callback is running
NoCall == [attr |-> "", old |-> <<NaN, NaN>>, new |-> <<NaN, NaN>>]

\* mutant: the high bound taken from new[0]
CallbackHighFromLow(cm, new) == [cm EXCEPT !.high = Pow10(new[1])]

\* line 163
CallbackHigh(cm, new) == [cm EXCEPT !.high = Pow10(new[2])]

\* line 164
CallbackLow(cm, new) == [cm EXCEPT !.low = Pow10(new[1])]

-----------------------------------------------------------------------------
(* Actions.  The program is single-threaded: a call runs to its end before the  *)
(* next begins, so no function starts while the callback is between its two     *)
(* assignments.                                                                 *)

PrepareLC ==
    /\ pc = "idle"
    /\ lc_source.status = "not_called"
    /\ lc_source' = PrepareLightcurveDatasource(lc)
    /\ UNCHANGED <<inputs, tpf_source, fig, color_mapper, stretch_slider, cb, pc, dispatched>>

PrepareTPF ==
    /\ pc = "idle"
    /\ tpf_source.status = "not_called"
    /\ tpf_source' = PrepareTpfDatasource(tpf, aperture_mask)
    /\ UNCHANGED <<inputs, lc_source, fig, color_mapper, stretch_slider, cb, pc, dispatched>>

\* the caller passes the overlay table it has prepared, or None
MakeFig ==
    /\ pc = "idle"
    /\ fig.status = "not_built"
    /\ \E src \in {None} \cup (IF tpf_source.status = "returned" THEN {Some(tpf_source)} ELSE {}) :
          fig' = Figure(tpf, src, pedestal, fiducial_frame)
    /\ color_mapper' = ColorMapper(Percentiles(tpf, PedestalUsed(tpf, pedestal)))
    /\ stretch_slider' = StretchSlider(Percentiles(tpf, PedestalUsed(tpf, pedestal)))
    /\ UNCHANGED <<inputs, lc_source, tpf_source, cb, pc, dispatched>>

\* the slider's values in an event: whole exponents 0 .. MaxExp
SliderValues == {Int2F(e) : e \in 0..MaxExp}

\* line 166: the runtime sets the slider's value and calls the registered callback
\* with (attr, old, new); events are dispatched one at a time
SliderChange ==
    /\ fig.status = "built"
    /\ pc = "idle"
    /\ \E new \in SliderValues \X SliderValues :
          /\ cb' = [attr |-> "value", old |-> stretch_slider.value, new |-> new]
          /\ stretch_slider' = [stretch_slider EXCEPT !.value = new]
    /\ pc' = "line163"
    /\ dispatched' = TRUE
    /\ UNCHANGED <<inputs, lc_source, tpf_source, fig, color_mapper>>

CallbackStep163 ==
    /\ pc = "line163"
    /\ color_mapper' = CallbackHigh(color_mapper, cb.new)
    /\ pc' = "line164"
    /\ UNCHANGED <<inputs, lc_source, tpf_source, fig, stretch_slider, cb, dispatched>>

CallbackStep164 ==
    /\ pc = "line164"
    /\ color_mapper' = CallbackLow(color_mapper, cb.new)
    /\ pc' = "idle"
    /\ cb' = NoCall
    /\ UNCHANGED <<inputs, lc_source, tpf_source, fig, stretch_slider, dispatched>>

-----------------------------------------------------------------------------
(* Inputs *)

Missions == {"Kepler", "K2", "TESS", "Other"}

Tpf(flux, column, row, mission) ==
    [flux |-> flux, column |-> column, row |-> row, mission |-> mission,
     module |-> 7, output |-> 3, camera |-> 2, ccd |-> 4]

Cubes(f, r, c, values) == {Array(<<f, r, c>>, d) : d \in [1..(f * r * c) -> values]}

Masks(r, c) == {Array(<<r, c>>, d) : d \in [1..(r * c) -> BOOLEAN]}

TimeValues == {Int2F(0), Int2F(1), NaN}

LightCurves(n) ==
    {[time |-> tm, flux |-> [i \in 1..n |-> Int2F(100 + i)],
      cadenceno |-> [i \in 1..n |-> i], quality |-> q] :
        tm \in [1..n -> TimeValues], q \in [1..n -> 0..MaxQuality]}

FluxValues == {Int2F(-2), Int2F(1), Int2F(5), NaN}

Pedestals == {None, Some(Int2F(0)), Some(Int2F(2))}

FiducialFrames(flux) == {None} \cup {Some(k) : k \in 0..(flux.shape[1] - 1)}

\* the example of the spec's section 8: column 10, row 20, shape (1, 2, 3)
ExampleTpf == Tpf(Array(<<1, 2, 3>>, [p \in 1..6 |-> Int2F(p)]), 10, 20, "TESS")
ExampleMask == Array(<<2, 3>>, <<TRUE, FALSE, TRUE, FALSE, TRUE, FALSE>>)

NothingCalled ==
    /\ lc_source = LcNotCalled
    /\ tpf_source = TpfNotCalled
    /\ fig = FigNotBuilt
    /\ color_mapper = NoMapper
    /\ stretch_slider = NoSlider
    /\ cb = NoCall
    /\ pc = "idle"
    /\ dispatched = FALSE

\* prepare_lightcurve_datasource on every light curve of up to MaxSamples samples
InitLC ==
    /\ \E n \in 0..MaxSamples : lc \in LightCurves(n)
    /\ tpf = ExampleTpf
    /\ aperture_mask = ExampleMask
    /\ pedestal = None
    /\ fiducial_frame = None
    /\ NothingCalled

\* prepare_tpf_datasource on every frame shape, offset and mask
InitTPF ==
    /\ lc \in LightCurves(0)
    /\ \E f \in 1..MaxFrames, r \in 1..MaxRows, c \in 1..MaxCols :
          /\ tpf \in {Tpf(Array(<<f, r, c>>, [p \in 1..(f * r * c) |-> Int2F(p)]), col, row, "TESS") :
                        col \in {0, 10}, row \in {0, 20}}
          /\ aperture_mask \in Masks(r, c)
    /\ pedestal = None
    /\ fiducial_frame = None
    /\ NothingCalled

\* make_tpf_figure_elements on every cube of 1 x 2 frames, pedestal, frame index and mission
InitFig ==
    /\ lc \in LightCurves(0)
    /\ \E f \in 1..MaxFrames :
          /\ tpf \in {Tpf(cube, 10, 20, m) : cube \in Cubes(f, 1, 2, FluxValues), m \in Missions}
          /\ aperture_mask = Array(<<1, 2>>, <<TRUE, FALSE>>)
    /\ pedestal \in Pedestals
    /\ fiducial_frame \in FiducialFrames(tpf.flux)
    /\ NothingCalled

\* a session: the three functions in any order, then slider events
Init ==
    /\ lc \in LightCurves(0) \cup {l \in LightCurves(1) : l.quality = <<1>> /\ l.time = <<Int2F(0)>>}
    /\ tpf \in {Tpf(cube, 10, 20, "TESS") : cube \in Cubes(1, 1, 2, FluxValues)}
    /\ aperture_mask = Array(<<1, 2>>, <<TRUE, FALSE>>)
    /\ pedestal \in Pedestals
    /\ fiducial_frame \in FiducialFrames(tpf.flux)
    /\ NothingCalled

NextLC == PrepareLC
NextTPF == PrepareTPF
NextFig == MakeFig

Next ==
    \/ PrepareLC
    \/ PrepareTPF
    \/ MakeFig
    \/ SliderChange
    \/ CallbackStep163
    \/ CallbackStep164

SpecLC == InitLC /\ [][NextLC]_vars
SpecTPF == InitTPF /\ [][NextTPF]_vars
SpecFig == InitFig /\ [][NextFig]_vars
Spec == Init /\ [][Next]_vars

-----------------------------------------------------------------------------
(* Claims *)

Callback == pc \in {"line163", "line164"}
Built == fig.status = "built"
Construction == fig.status = "not_built" /\ fig'.status = "built"

\* C1: when stretch_change_callback completes, the color mapper's bounds are
\* (10 ** new[0], 10 ** new[1]) of the event it was called with, whatever the bounds
\* and the event's old value were; between callbacks, once an event has been
\* dispatched, the bounds are those of the last event (the slider's value), and
\* new = (1, 3) gives low = 10, high = 1000.
C1_CallbackSetsBounds ==
    /\ [][(pc = "line164" /\ pc' = "idle") =>
            \E a, b \in 0..MaxExp :
               /\ cb.new = <<Int2F(a), Int2F(b)>>
               /\ color_mapper' = [low |-> Num(Milli * 10 ^ a), high |-> Num(Milli * 10 ^ b)]]_vars
    /\ [](pc = "idle" /\ dispatched =>
            \E a, b \in 0..MaxExp :
               /\ stretch_slider.value = <<Int2F(a), Int2F(b)>>
               /\ color_mapper = [low |-> Num(Milli * 10 ^ a), high |-> Num(Milli * 10 ^ b)])
    /\ [](pc = "idle" /\ dispatched /\ stretch_slider.value = <<Int2F(1), Int2F(3)>> =>
            color_mapper = [low |-> Int2F(10), high |-> Int2F(1000)])

C1_Witness ==
    /\ pc = "idle" /\ dispatched
    /\ stretch_slider.value = <<Int2F(1), Int2F(3)>>
    /\ color_mapper = [low |-> Int2F(10), high |-> Int2F(1000)]

\* C2: construction sets the bounds to the 1st and 95th percentile of the shifted
\* flux; afterwards only a step of the callback changes them; a step of the callback
\* changes one bound and nothing else.
C2_OnlyCallbackMutates ==
    [][/\ Construction =>
            color_mapper' = [low |-> NanPercentile(ArrAdd(tpf.flux, fig'.pedestal), 10),
                             high |-> NanPercentile(ArrAdd(tpf.flux, fig'.pedestal), 950)]
       /\ color_mapper' # color_mapper => Construction \/ Callback
       /\ Callback => UNCHANGED <<inputs, lc_source, tpf_source, fig, stretch_slider>>
       /\ pc = "line163" => color_mapper'.low = color_mapper.low
       /\ pc = "line164" => color_mapper'.high = color_mapper.high]_vars

C2_Witness ==
    /\ pc = "idle" /\ dispatched
    /\ lc_source.status # "not_called"
    /\ tpf_source.status = "returned"
    /\ fig.rect
    /\ color_mapper # ColorMapper(Percentiles(tpf, fig.pedestal))

HasNaNTime == \E i \in 1..Len(lc.time) : IsNaN(lc.time[i])

\* C3: after prepare_lightcurve_datasource, time_iso has one entry per sample: the
\* sample's ISO string when no time is NaN, the placeholder " " in every row when
\* some time is NaN.
C3_TimeIsoAllOrNothing ==
    lc_source.status # "not_called" =>
        /\ Len(lc_source.data.time_iso) = Len(lc.time)
        /\ \A i \in 1..Len(lc.time) :
              lc_source.data.time_iso[i] = IF HasNaNTime THEN " " ELSE Isot(lc.time[i])

\* C4: after prepare_lightcurve_datasource, the quality column has one string per
\* bitmask, in order: " " for no flag, the name for one flag, the names joined by
\* "; " for several.
C4_QualityStrings ==
    lc_source.status # "not_called" =>
        /\ Len(lc_source.data.quality) = Len(lc.quality)
        /\ \A i \in 1..Len(lc.quality) :
              LET names == Decode(lc.quality[i])
              IN  lc_source.data.quality[i] =
                     IF Len(names) = 0 THEN " "
                     ELSE IF Len(names) = 1 THEN names[1]
                     ELSE Join("; ", names)

MaskRows == aperture_mask.shape[1]
MaskCols == aperture_mask.shape[2]
MaskAt(i, j) == aperture_mask.data[i * MaskCols + j + 1]
MaskedIndices == {i * MaskCols + j : <<i, j>> \in {c \in (0..(MaskRows - 1)) \X (0..(MaskCols - 1)) : MaskAt(c[1], c[2])}}

\* C5: the selection is the row-major indices i*C + j of the True cells of the mask,
\* ascending, without duplicates: empty for an all-False mask, 0..R*C-1 for an
\* all-True mask, <<0, 2, 4>> for the example.
C5_SelectionIsMask ==
    tpf_source.status = "returned" =>
        LET sel == tpf_source.selected
        IN  /\ {sel[n] : n \in 1..Len(sel)} = MaskedIndices
            /\ Len(sel) = Cardinality(MaskedIndices)
            /\ \A n \in 1..(Len(sel) - 1) : sel[n] < sel[n + 1]
            /\ (\A p \in 1..Len(aperture_mask.data) : ~aperture_mask.data[p]) => sel = <<>>
            /\ (\A p \in 1..Len(aperture_mask.data) : aperture_mask.data[p]) =>
                  sel = [n \in 1..(MaskRows * MaskCols) |-> n - 1]
            /\ (tpf = ExampleTpf /\ aperture_mask = ExampleMask) => sel = <<0, 2, 4>>

C5_Witness ==
    /\ tpf = ExampleTpf /\ aperture_mask = ExampleMask
    /\ tpf_source.status = "returned"
    /\ tpf_source.selected = <<0, 2, 4>>

\* C6: the overlay table has one (x, y) per cell; the entry at row-major position
\* i*C + j is (column + j + 0.5, row + i + 0.5); every selected index is the position
\* of a True cell.
C6_PixelCentres ==
    tpf_source.status = "returned" =>
        LET R == tpf.flux.shape[2]
            C == tpf.flux.shape[3]
        IN  /\ Len(tpf_source.xx.data) = R * C
            /\ Len(tpf_source.yy.data) = R * C
            /\ \A i \in 0..(R - 1), j \in 0..(C - 1) :
                  /\ 2 * tpf_source.xx.data[i * C + j + 1].v = (2 * (tpf.column + j) + 1) * Milli
                  /\ 2 * tpf_source.yy.data[i * C + j + 1].v = (2 * (tpf.row + i) + 1) * Milli
            /\ \A n \in 1..Len(tpf_source.selected) :
                  LET p == tpf_source.selected[n]
                  IN  /\ p \in 0..(R * C - 1)
                      /\ MaskAt(p \div C, p % C)

C6_Witness ==
    /\ tpf = ExampleTpf /\ aperture_mask = ExampleMask
    /\ tpf_source.status = "returned"
    /\ tpf_source.xx.data = <<Num(10500), Num(11500), Num(12500), Num(10500), Num(11500), Num(12500)>>
    /\ tpf_source.yy.data = <<Num(20500), Num(20500), Num(20500), Num(21500), Num(21500), Num(21500)>>

\* C7: the displayed image is frame 0 plus the pedestal when no fiducial frame is
\* given, and frame k plus the pedestal when k is given: a 2-D R x C array.
C7_ImageIsFiducialFrame ==
    Built =>
        LET k == IF fiducial_frame = None THEN 0 ELSE fiducial_frame[1]
        IN  /\ fig.image.shape = <<tpf.flux.shape[2], tpf.flux.shape[3]>>
            /\ fig.image = ArrAdd(Frame(tpf.flux, k), fig.pedestal)

HasFinite(a) == \E p \in 1..Len(a.data) : ~IsNaN(a.data[p])
FiniteValues(a) == {a.data[p].v : p \in {q \in 1..Len(a.data) : ~IsNaN(a.data[q])}}
AtLeastOne(x) == x.k = "num" /\ x.v >= Milli

C8_NoPositivityWitness ==
    /\ Built /\ pedestal = Some(Int2F(0))
    /\ color_mapper.low.k = "num" /\ color_mapper.low.v < 0

\* C9: the title is "Pixel data (CCD module.output)" for Kepler and K2,
\* "Pixel data (Camera camera.ccd)" for TESS, "Pixel data" otherwise; camera and ccd
\* are not read for Kepler/K2, module and output are not read otherwise.
C9_TitleByMission ==
    Built =>
        /\ tpf.mission \in {"Kepler", "K2"} =>
              /\ fig.title = "Pixel data (CCD 7.3)"
              /\ fig.reads \cap {"camera", "ccd"} = {}
        /\ tpf.mission = "TESS" =>
              /\ fig.title = "Pixel data (Camera 2.4)"
              /\ fig.reads \cap {"module", "output"} = {}
        /\ tpf.mission \notin {"Kepler", "K2", "TESS"} =>
              /\ fig.title = "Pixel data"
              /\ fig.reads \cap {"module", "output", "camera", "ccd"} = {}

C9_Witness ==
    /\ Built /\ tpf.mission = "K2"
    /\ fig.title = "Pixel data (CCD 7.3)"
    /\ fig.reads = {"mission", "module", "output", "flux", "column", "row", "shape"}

SliderOrdered ==
    /\ LogLe(stretch_slider.start, stretch_slider.value[1])
    /\ LogLe(stretch_slider.value[1], stretch_slider.value[2])
    /\ LogLe(stretch_slider.value[2], stretch_slider.end)

MapperMatchesSlider ==
    /\ color_mapper.low = Pow10(stretch_slider.value[1])
    /\ color_mapper.high = Pow10(stretch_slider.value[2])

\* C10 as claimed: right after construction start <= value_low <= value_high <= end,
\* the bounds are 10 ** value and low <= high; between callbacks, after events with
\* new_low <= new_high, low <= high.
C10_StretchOrdered ==
    /\ (Built /\ ~dispatched) =>
          SliderOrdered /\ MapperMatchesSlider /\ FLe(color_mapper.low, color_mapper.high)
    /\ (pc = "idle" /\ dispatched /\ LogLe(stretch_slider.value[1], stretch_slider.value[2])) =>
          FLe(color_mapper.low, color_mapper.high)

\* the 0.2 percentile of the shifted flux is a positive number
PositiveFlux ==
    LET vlo == NanPercentile(ArrAdd(tpf.flux, fig.pedestal), Quantiles[1])
    IN  vlo.k = "num" /\ vlo.v > 0

\* C10 as amended: the same, for a figure whose shifted flux has a positive 0.2
\* percentile.
C10_StretchOrderedWhenPositive ==
    /\ (Built /\ ~dispatched /\ PositiveFlux) =>
          SliderOrdered /\ MapperMatchesSlider /\ FLe(color_mapper.low, color_mapper.high)
    /\ (pc = "idle" /\ dispatched /\ LogLe(stretch_slider.value[1], stretch_slider.value[2])) =>
          FLe(color_mapper.low, color_mapper.high)

C10_Witness ==
    /\ Built /\ ~dispatched /\ PositiveFlux
    /\ pedestal = Some(Int2F(2))
    /\ stretch_slider.start.k = "log10"
    /\ stretch_slider.value[1] # stretch_slider.start
    /\ stretch_slider.value[2] # stretch_slider.end
    /\ SliderOrdered /\ MapperMatchesSlider

C10_EventWitness ==
    /\ pc = "idle" /\ dispatched /\ PositiveFlux
    /\ stretch_slider.value = <<Int2F(0), Int2F(2)>>
    /\ color_mapper = [low |-> Int2F(1), high |-> Int2F(100)]

=============================================================================
